---- MODULE Spec2Model ----
(***************************************************************************)
(* A model of the API testing suite: the JSON path checker, the response   *)
(* validator, the test suite orchestrator (APITestSuite) and the report    *)
(* writer / console summary.                                               *)
(*                                                                         *)
(* Text (a Python str) is a sequence of string fragments; concatenation is *)
(* \o.  A dotted path and every text that is split is a sequence of        *)
(* one-character fragments.  An Optional value is <<>> (None) or <<x>>.    *)
(***************************************************************************)
EXTENDS Integers, Sequences, FiniteSets, TLC

VARIABLES results, returned, lastCall, invoked, nCalls, log, report, summary, pc,
          payload, jpath, found, pcPath

vars == <<results, returned, lastCall, invoked, nCalls, log, report, summary, pc,
          payload, jpath, found, pcPath>>

suiteVars == <<results, returned, lastCall, invoked, nCalls, log, report, summary, pc>>
pathVars == <<payload, jpath, found, pcPath>>

(***************************************************************************)
(* Bounds of the model.                                                    *)
(***************************************************************************)
MaxTests == 2
MaxDepth == 2
MaxPathLen == 3

(***************************************************************************)
(* Python values.                                                          *)
(***************************************************************************)
None == <<>>
Some(x) == <<x>>

\* Python truthiness of an Optional[float]: None and 0.0 are both falsy.
Truthy(opt) == opt # None /\ opt[1] # 0

\* str.find(sep) from position i on: the first index of sep, or 0 for none.
RECURSIVE find(_, _, _)
find(s, sep, i) ==
    IF i > Len(s) THEN 0
    ELSE IF s[i] = sep THEN i
    ELSE find(s, sep, i + 1)

\* str.split(sep) for a one-character separator: always at least one part.
RECURSIVE split(_, _)
split(s, sep) ==
    LET i == find(s, sep, 1) IN
    IF i = 0 THEN <<s>>
    ELSE <<SubSeq(s, 1, i - 1)>> \o split(SubSeq(s, i + 1, Len(s)), sep)

\* sep.join(list)
RECURSIVE join(_, _)
join(sep, list) ==
    IF list = <<>> THEN <<>>
    ELSE IF Len(list) = 1 THEN list[1]
    ELSE list[1] \o <<sep>> \o join(sep, Tail(list))

\* f"{x:.2f}" of a whole number of milliseconds
Fmt2(x) == <<ToString(x), ".00">>

(***************************************************************************)
(* Parsed JSON documents.                                                  *)
(***************************************************************************)
JNull == [kind |-> "null"]
JNumber == [kind |-> "number"]
JArray == [kind |-> "array"]
JObject(m) == [kind |-> "object", members |-> m]

\* isinstance(current, dict)
isinstance_dict(v) == v.kind = "object"

\* The for loop of _has_json_path over the remaining parts.
RECURSIVE has_json_path_loop(_, _)
has_json_path_loop(current, parts) ==
    IF parts = <<>> THEN TRUE
    ELSE IF ~isinstance_dict(current) \/ Head(parts) \notin DOMAIN current.members
         THEN FALSE
         ELSE has_json_path_loop(current.members[Head(parts)], Tail(parts))

\* A loop that forgets `current = current[part]` looks every part up at the top.
RECURSIVE has_json_path_loop_NoDescend(_, _)
has_json_path_loop_NoDescend(current, parts) ==
    IF parts = <<>> THEN TRUE
    ELSE IF ~isinstance_dict(current) \/ Head(parts) \notin DOMAIN current.members
         THEN FALSE
         ELSE has_json_path_loop_NoDescend(current, Tail(parts))

has_json_path_NoDescend(doc, path) == has_json_path_loop_NoDescend(doc, split(path, "."))

has_json_path(doc, path) == has_json_path_loop(doc, split(path, "."))

(***************************************************************************)
(* The inputs of the path checker: documents nested to MaxDepth over the   *)
(* keys "" and "a", and paths of at most MaxPathLen characters.            *)
(***************************************************************************)
Keys == {<<>>, <<"a">>}
Scalars == {JNull, JArray}
PathChars == {"a", "."}

RECURSIVE Docs(_)
Docs(n) ==
    IF n = 0 THEN Scalars
    ELSE Scalars \cup
         {JObject(m) : m \in UNION {[S -> Docs(n - 1)] : S \in SUBSET Keys}}

Paths == UNION {[1..n -> PathChars] : n \in 0..MaxPathLen}

(***************************************************************************)
(* TestResult and the messages of the response validator.                  *)
(***************************************************************************)
max_response_time_ms == 800

TestResult(name, success, status_code, response_time_ms, details) ==
    [name |-> name, success |-> success, status_code |-> status_code,
     response_time_ms |-> response_time_ms, details |-> details]

PassedMsg == <<"All checks passed.">>
NotJsonMsg == <<"Response is not valid JSON.">>
StatusMsg(expected_status, status_code) ==
    <<"Expected status ", ToString(expected_status), ", got ",
      ToString(status_code), ".">>
LatencyMsg(elapsed_ms) ==
    <<"Response time ">> \o Fmt2(elapsed_ms) \o <<" ms exceeded limit ">>
        \o Fmt2(max_response_time_ms) \o <<" ms.">>
MissingMsg(path) == <<"Missing JSON path: ">> \o path
ExceptionMsg(exc) == <<"Exception while executing test: ">> \o exc

(***************************************************************************)
(* requests.Response.json(): the parsed body, json.JSONDecodeError for a   *)
(* body that is not JSON, and RecursionError (not a JSONDecodeError) for a *)
(* body nested deeper than the interpreter's recursion limit.              *)
(***************************************************************************)
Return(v) == [kind |-> "return", value |-> v]
Raise(type, exc) == [kind |-> "raise", type |-> type, exc |-> exc]

ResponseJson(response) ==
    CASE response.body.kind = "json" -> Return(response.body.doc)
      [] response.body.kind = "invalid" ->
            Raise("JSONDecodeError", <<"Expecting value: line 1 column 1 (char 0)">>)
      [] response.body.kind = "deep" ->
            Raise("RecursionError", <<"maximum recursion depth exceeded">>)

(***************************************************************************)
(* _validate_response: each check yields the success flag it leaves and    *)
(* the entries it appends to details_list.                                 *)
(***************************************************************************)
Check(success, details_list) == [success |-> success, details_list |-> details_list]

StatusCheck(status_code, expected_status) ==
    IF status_code # expected_status
    THEN Check(FALSE, <<StatusMsg(expected_status, status_code)>>)
    ELSE Check(TRUE, <<>>)

\* The latency check with `success = False` forgotten.
LatencyCheck_KeepsSuccess(elapsed_ms) ==
    IF elapsed_ms > max_response_time_ms
    THEN Check(TRUE, <<LatencyMsg(elapsed_ms)>>)
    ELSE Check(TRUE, <<>>)

\* The latency check with >= for >.
LatencyCheck_AtLimitFails(elapsed_ms) ==
    IF elapsed_ms >= max_response_time_ms
    THEN Check(FALSE, <<LatencyMsg(elapsed_ms)>>)
    ELSE Check(TRUE, <<>>)

LatencyCheck(elapsed_ms) ==
    IF elapsed_ms > max_response_time_ms
    THEN Check(FALSE, <<LatencyMsg(elapsed_ms)>>)
    ELSE Check(TRUE, <<>>)

\* The for loop over required_json_paths: one entry per missing path.
RECURSIVE PathEntries(_, _)
PathEntries(doc, paths) ==
    IF paths = <<>> THEN <<>>
    ELSE (IF ~has_json_path(doc, Head(paths)) THEN <<MissingMsg(Head(paths))>> ELSE <<>>)
         \o PathEntries(doc, Tail(paths))

\* The JSON structure check; an exception other than JSONDecodeError leaves
\* the try statement uncaught.
JsonCheck(response, required_json_paths) ==
    IF required_json_paths = <<>> THEN Return(Check(TRUE, <<>>))
    ELSE LET parsed == ResponseJson(response) IN
         IF parsed.kind = "raise"
         THEN IF parsed.type = "JSONDecodeError"
              THEN Return(Check(FALSE, <<NotJsonMsg>>))
              ELSE parsed
         ELSE LET entries == PathEntries(parsed.value, required_json_paths) IN
              Return(Check(entries = <<>>, entries))

validate_response(name, response, expected_status, required_json_paths) ==
    LET status_code == response.status_code
        elapsed_ms == response.elapsed_ms
        c1 == StatusCheck(status_code, expected_status)
        c2 == LatencyCheck(elapsed_ms)
        j == JsonCheck(response, required_json_paths)
    IN  IF j.kind = "raise" THEN j
        ELSE LET c3 == j.value
                 found_list == c1.details_list \o c2.details_list \o c3.details_list
                 details_list == IF found_list = <<>> THEN <<PassedMsg>> ELSE found_list
             IN  Return(TestResult(name,
                                   c1.success /\ c2.success /\ c3.success,
                                   Some(status_code), Some(elapsed_ms),
                                   join(" ", details_list)))

(***************************************************************************)
(* HttpClient.get / post over requests: a RequestException is re-raised as *)
(* APIClientError(str(exc)); a response or any other exception passes.     *)
(***************************************************************************)
HttpClient_request(raw) ==
    IF raw.kind = "raise" /\ raw.type = "RequestException"
    THEN Raise("APIClientError", raw.exc)
    ELSE raw

HttpClient_get(raw) == HttpClient_request(raw)
HttpClient_post(raw) == HttpClient_request(raw)

(***************************************************************************)
(* The inputs of the orchestrator.                                         *)
(***************************************************************************)
GetNames == {<<"GET single user (id=2)">>}
PostNames == {<<"POST create user">>}
Names == GetNames \cup PostNames
ExpectedStatuses == {200}
StatusCodes == {200, 404}
ElapsedMs == {0, max_response_time_ms, max_response_time_ms + 1}

p_data_id == <<"d", "a", "t", "a", ".", "i", "d">>
p_data_email == <<"d", "a", "t", "a", ".", "e", "m", "a", "i", "l">>
p_page == <<"p", "a", "g", "e">>
RequiredPaths == {<<>>, <<p_data_id>>, <<p_data_email, p_data_id, p_page>>}

\* {"data": {"id": 7}}
UserDoc ==
    JObject([k \in {<<"d", "a", "t", "a">>} |->
                JObject([f \in {<<"i", "d">>} |-> JNumber])])
Bodies == {[kind |-> "json", doc |-> UserDoc], [kind |-> "invalid"], [kind |-> "deep"]}

Responses == [status_code : StatusCodes, elapsed_ms : ElapsedMs, body : Bodies]

\* What requests.get / requests.post produce: a response, a RequestException,
\* or an exception of another kind (here with a two-line message).
RequestsOutcomes ==
    {Return(r) : r \in Responses}
        \cup {Raise("RequestException", <<"Connection refused">>),
              Raise("Exception", <<"Tunnel failed:", "\n", "403">>)}

(***************************************************************************)
(* run_get_test / run_post_test.                                           *)
(***************************************************************************)
\* The except branch with the exception's text left out of details.
ExceptionResult_NoDescription(name, exc) ==
    TestResult(name, FALSE, None, None, <<"Exception while executing test">>)

ExceptionResult(name, exc) ==
    TestResult(name, FALSE, None, None, ExceptionMsg(exc))

\* results.insert(0, result) for results.append(result)
AppendResult_InsertFirst(list, result) == <<result>> \o list

AppendResult(list, result) == Append(list, result)

STATUS(res) == IF res.success THEN "PASS" ELSE "FAIL"
StatusCodeStr(status_code) ==
    IF status_code = None THEN <<"None">> ELSE <<ToString(status_code[1])>>

\* _log_result: the line handed to the logger.
log_result(result) ==
    <<"[", STATUS(result), "] ">> \o result.name
        \o <<" (status=">> \o StatusCodeStr(result.status_code)
        \o <<", time=">>
        \o (IF result.response_time_ms # None
            THEN Fmt2(result.response_time_ms[1]) ELSE <<"N/A">>)
        \o <<" ms) - ">> \o result.details

\* The body both test methods share, given what the client call produced.
RunTest(name, expected_status, required_json_paths, called) ==
    LET attempt == IF called.kind = "raise" THEN called
                   ELSE validate_response(name, called.value, expected_status,
                                          required_json_paths)
        result == IF attempt.kind = "raise"
                  THEN ExceptionResult(name, attempt.exc)
                  ELSE attempt.value
    IN  /\ results' = AppendResult(results, result)
        /\ log' = Append(log, log_result(result))
        /\ returned' = Some(result)
        /\ lastCall' = Some([name |-> name, expected_status |-> expected_status,
                             required_json_paths |-> required_json_paths,
                             called |-> called])
        /\ invoked' = Append(invoked, name)
        /\ nCalls' = nCalls + 1

run_get_test ==
    /\ pc = "running"
    /\ nCalls < MaxTests
    /\ \E name \in GetNames, expected_status \in ExpectedStatuses,
          required_json_paths \in RequiredPaths, raw \in RequestsOutcomes :
          RunTest(name, expected_status, required_json_paths, HttpClient_get(raw))
    /\ UNCHANGED <<report, summary, pc>>
    /\ UNCHANGED pathVars

run_post_test ==
    /\ pc = "running"
    /\ nCalls < MaxTests
    /\ \E name \in PostNames, expected_status \in ExpectedStatuses,
          required_json_paths \in RequiredPaths, raw \in RequestsOutcomes :
          RunTest(name, expected_status, required_json_paths, HttpClient_post(raw))
    /\ UNCHANGED <<report, summary, pc>>
    /\ UNCHANGED pathVars

(***************************************************************************)
(* write_report and print_summary, in the order main() calls them.         *)
(***************************************************************************)
ReportLine(res) ==
    LET response_time_str ==
            IF Truthy(res.response_time_ms)
            THEN Fmt2(res.response_time_ms[1]) ELSE <<"N/A">>
    IN  <<STATUS(res), " | ">> \o res.name
            \o <<" | status=">> \o StatusCodeStr(res.status_code)
            \o <<" | time=">> \o response_time_str
            \o <<" ms | ">> \o res.details

write_report ==
    /\ pc = "running"
    /\ report' = Some(join("\n", [i \in 1..Len(results) |-> ReportLine(results[i])]))
    /\ pc' = "written"
    /\ UNCHANGED <<results, returned, lastCall, invoked, nCalls, log, summary>>
    /\ UNCHANGED pathVars

\* f"{text:<width}" for the texts a row pads: spaces up to the width
LJust(text, width) ==
    CASE text = <<"PASS">> \/ text = <<"FAIL">> ->
            text \o (IF width > 4 THEN <<" ">> ELSE <<>>)
      [] text = <<"GET single user (id=2)">> ->
            text \o (IF width > 22 THEN <<"                  ">> ELSE <<>>)
      [] text = <<"POST create user">> ->
            text \o (IF width > 16 THEN <<"                        ">> ELSE <<>>)

SummaryRow(res) ==
    LET response_time_str ==
            IF Truthy(res.response_time_ms)
            THEN Fmt2(res.response_time_ms[1]) ELSE <<"N/A">>
    IN  LJust(<<STATUS(res)>>, 5) \o <<" | ">> \o LJust(res.name, 40)
            \o <<" ", "| status=">> \o StatusCodeStr(res.status_code)
            \o <<" ", "| time=">> \o response_time_str \o <<" ms">>

print_summary ==
    /\ pc = "written"
    /\ LET total == Len(results)
           passed == Cardinality({i \in 1..Len(results) : results[i].success})
       IN  summary' = Some([rows |-> [i \in 1..Len(results) |-> SummaryRow(results[i])],
                            total |-> total, passed |-> passed,
                            failed |-> total - passed])
    /\ pc' = "done"
    /\ UNCHANGED <<results, returned, lastCall, invoked, nCalls, log, report>>
    /\ UNCHANGED pathVars

InitSuite ==
    /\ results = <<>>
    /\ returned = None
    /\ lastCall = None
    /\ invoked = <<>>
    /\ nCalls = 0
    /\ log = <<>>
    /\ report = None
    /\ summary = None
    /\ pc = "running"

InitPath ==
    /\ InitSuite
    /\ payload \in Docs(MaxDepth) \cup {JNumber}
    /\ jpath \in Paths
    /\ found = FALSE
    /\ pcPath = "call"

\* One call of _has_json_path(payload, jpath).
CheckPath ==
    /\ pcPath = "call"
    /\ found' = has_json_path(payload, jpath)
    /\ pcPath' = "returned"
    /\ UNCHANGED <<payload, jpath>>
    /\ UNCHANGED suiteVars

NextPath == CheckPath

SpecPath == InitPath /\ [][NextPath]_vars

Init ==
    /\ InitSuite
    /\ payload = JNull
    /\ jpath = <<>>
    /\ found = FALSE
    /\ pcPath = "idle"

Next == run_get_test \/ run_post_test \/ write_report \/ print_summary

Spec == Init /\ [][Next]_vars

(***************************************************************************)
(* What the properties are stated with.                                    *)
(***************************************************************************)
Last(seq) == seq[Len(seq)]

\* The dot-separated segments of a path, by the positions of its dots: the
\* k-th segment lies strictly between the k-th and the (k+1)-th boundary.
Boundaries(p) == {0, Len(p) + 1} \cup {i \in 1..Len(p) : p[i] = "."}
KthBoundary(p, k) ==
    CHOOSE x \in Boundaries(p) : Cardinality({y \in Boundaries(p) : y < x}) = k - 1
Segments(p) ==
    [k \in 1..(Cardinality(Boundaries(p)) - 1) |->
        SubSeq(p, KthBoundary(p, k) + 1, KthBoundary(p, k + 1) - 1)]

\* The value reached after the first i segments, or Missing when the walk
\* has hit a missing key or a value that is not a mapping.
Missing == [kind |-> "missing"]
RECURSIVE ValueAt(_, _, _)
ValueAt(d, segs, i) ==
    IF i = 0 THEN d
    ELSE LET prev == ValueAt(d, segs, i - 1) IN
         IF prev.kind = "object" /\ segs[i] \in DOMAIN prev.members
         THEN prev.members[segs[i]]
         ELSE Missing

WalkSucceeds(d, p) ==
    LET segs == Segments(p) IN ValueAt(d, segs, Len(segs)) # Missing

\* The text between the first fragment `open` and the next fragment `close`.
Field(text, open, close) ==
    LET a == CHOOSE i \in 1..Len(text) :
                 text[i] = open /\ \A j \in 1..(i - 1) : text[j] # open
        b == CHOOSE i \in (a + 1)..Len(text) :
                 text[i] = close /\ \A j \in (a + 1)..(i - 1) : text[j] # close
    IN  SubSeq(text, a + 1, b - 1)

\* The lines of a text file
FileLines(text) == IF text = <<>> THEN <<>> ELSE split(text, "\n")

FailureMarkers ==
    {"Expected status ", "Response time ", "Response is not valid JSON.",
     "Missing JSON path: ", "Exception while executing test: "}
ContainsFailure(details) == \E i \in 1..Len(details) : details[i] \in FailureMarkers

\* The last invocation, its response when the transport returned one, and
\* the Verdict recorded for it.
call == lastCall[1]
response == call.called.value
verdict == Last(results)
Responded == lastCall # None /\ call.called.kind = "return"
TransportFailed == lastCall # None /\ call.called.kind = "raise"

StatusViolated == response.status_code # call.expected_status
LatencyViolated == response.elapsed_ms > max_response_time_ms
BodyParses == response.body.kind = "json"
MissingPaths ==
    SelectSeq(call.required_json_paths,
              LAMBDA p : ~WalkSucceeds(response.body.doc, p))
JsonViolated ==
    /\ call.required_json_paths # <<>>
    /\ (~BodyParses \/ MissingPaths # <<>>)
NViolated ==
    (IF StatusViolated THEN 1 ELSE 0) + (IF LatencyViolated THEN 1 ELSE 0)
        + (IF JsonViolated THEN 1 ELSE 0)

\* One message per violated check, in the order status, latency, JSON.
ExpectedEntries ==
    (IF StatusViolated
     THEN <<StatusMsg(call.expected_status, response.status_code)>> ELSE <<>>)
    \o (IF LatencyViolated THEN <<LatencyMsg(response.elapsed_ms)>> ELSE <<>>)
    \o (IF call.required_json_paths = <<>> THEN <<>>
        ELSE IF ~BodyParses THEN <<NotJsonMsg>>
        ELSE [i \in 1..Len(MissingPaths) |-> MissingMsg(MissingPaths[i])])

(***************************************************************************)
(* The claims.                                                             *)
(***************************************************************************)

\* C1: every recorded Verdict has success true exactly when its details is
\* the passing sentinel, and success false whenever its details holds a
\* failure message.
C1_SuccessIffSentinel ==
    \A i \in 1..Len(results) :
        /\ results[i].success <=> (results[i].details = PassedMsg)
        /\ ContainsFailure(results[i].details) => ~results[i].success

\* A passing Verdict followed by one that failed validation with two messages.
C1_Witness ==
    /\ Len(results) = 2
    /\ results[1].success /\ results[1].details = PassedMsg
    /\ ~results[2].success /\ results[2].status_code # None
    /\ Cardinality({i \in 1..Len(results[2].details) :
                        results[2].details[i] \in FailureMarkers}) >= 2

\* C2: a response with the expected status, an elapsed time at or below the
\* limit and every required path present gets success = true and details
\* exactly "All checks passed.".
C2_AllChecksPass ==
    (/\ Responded
     /\ ~StatusViolated
     /\ response.elapsed_ms <= max_response_time_ms
     /\ (call.required_json_paths # <<>> => BodyParses /\ MissingPaths = <<>>))
    => (/\ verdict.success = TRUE
        /\ verdict.details = PassedMsg
        /\ returned = Some(verdict))

\* A response exactly at the limit with a required path, all present.
C2_Witness ==
    /\ Responded
    /\ ~StatusViolated
    /\ response.elapsed_ms = max_response_time_ms
    /\ call.required_json_paths # <<>> /\ BodyParses /\ MissingPaths = <<>>
    /\ verdict.success

\* C3: a response that violates more than one check gets success = false
\* and one message per violated check: status, then latency, then either
\* the single not-valid-JSON message or one message per missing path in the
\* order given.
C3_EveryViolationReported ==
    (Responded /\ NViolated > 1)
    => (/\ verdict.success = FALSE
        /\ verdict.details = join(" ", ExpectedEntries))

\* The statement of C3 for the responses whose json() returns or raises
\* JSONDecodeError.
C3_WhenJsonDecodes ==
    (Responded /\ NViolated > 1 /\ response.body.kind # "deep")
    => (/\ verdict.success = FALSE
        /\ verdict.details = join(" ", ExpectedEntries))

\* C4: when the client call raises, the test method still returns and
\* records a Verdict with success = false, no status code, no response
\* time, and details made of the exception prefix and the failure's text
\* alone (no status, latency or JSON message).
C4_TransportFailureVerdict ==
    TransportFailed
    => (/\ Len(results) = nCalls
        /\ returned = Some(verdict)
        /\ verdict.name = call.name
        /\ verdict.success = FALSE
        /\ verdict.status_code = None
        /\ verdict.response_time_ms = None
        /\ verdict.details = <<"Exception while executing test: ">> \o call.called.exc)

\* A transport failure recorded as the second Verdict of a run.
C4_Witness ==
    /\ TransportFailed
    /\ call.called.type = "APIClientError"
    /\ results[1].details = ExceptionMsg(<<"Tunnel failed:", "\n", "403">>)
    /\ Len(results) = 2
    /\ ~verdict.success

\* C5: whenever the transport returned a Response, the recorded Verdict
\* carries that Response's status code and elapsed time.
C5_StatusPresentWhenResponded ==
    Responded
    => (/\ verdict.status_code = Some(response.status_code)
        /\ verdict.response_time_ms = Some(response.elapsed_ms))

\* C6: every invocation appends exactly one Verdict at the end of results,
\* leaves the earlier Verdicts in place, returns that Verdict, and keeps
\* results as long as the number of invocations with the i-th Verdict
\* bearing the i-th invocation's name.
C6_Step ==
    (results' # results \/ nCalls' # nCalls)
    => (/\ nCalls' = nCalls + 1
        /\ Len(results') = Len(results) + 1
        /\ SubSeq(results', 1, Len(results)) = results
        /\ returned' = Some(results'[Len(results')])
        /\ Len(results') = nCalls'
        /\ \A i \in 1..Len(results') : results'[i].name = invoked'[i])
C6_AppendOnlyInOrder == [][C6_Step]_vars

\* A transport failure followed by a passing test of another name.
C6_Witness ==
    /\ Len(results) = 2
    /\ ~results[1].success /\ results[1].status_code = None
    /\ results[2].success
    /\ results[1].name # results[2].name
    /\ invoked = <<results[1].name, results[2].name>>

\* C7: the written report has exactly one line per Verdict, the N-th line
\* being the N-th Verdict's.
C7_OneLinePerVerdict ==
    pc \in {"written", "done"}
    => LET lines == FileLines(report[1]) IN
       /\ Len(lines) = Len(results)
       /\ \A i \in 1..Len(results) :
              LET start == <<STATUS(results[i]), " | ">> \o results[i].name IN
              /\ Len(lines[i]) >= Len(start)
              /\ SubSeq(lines[i], 1, Len(start)) = start

\* C8: _has_json_path(d, p) is true exactly when the walk of p's segments
\* through d never hits a missing key or a value that is not a mapping.
C8_HasPathIffWalkSucceeds ==
    pcPath = "returned" => (found <=> WalkSucceeds(payload, jpath))

\* A two-segment path found, ending at a value that is not a mapping.
C8_Witness ==
    /\ pcPath = "returned"
    /\ found
    /\ Len(Segments(jpath)) = 2
    /\ ValueAt(payload, Segments(jpath), 2).kind \in {"null", "array"}

\* C9: the empty path is never found, whatever the document.
C9_EmptyPathNotFound ==
    (pcPath = "returned" /\ jpath = <<>>) => found = FALSE

\* C10: in the summary row and the report line of each Verdict the time
\* field is "N/A" exactly when response_time_ms is absent, and otherwise
\* the two-decimal latency that the logged line shows.
C10_TimeFieldNAIffAbsent ==
    pc = "done"
    => \A i \in 1..Len(results) :
           LET inRow == Field(summary[1].rows[i], "| time=", " ms")
               inLog == Field(log[i], ", time=", " ms) - ")
               lines == FileLines(report[1])
           IN  /\ (inRow = <<"N/A">>) <=> (results[i].response_time_ms = None)
               /\ inRow = inLog
               /\ Len(lines) = Len(results)
                  => /\ (Field(lines[i], " | time=", " ms | ") = <<"N/A">>)
                            <=> (results[i].response_time_ms = None)
                     /\ Field(lines[i], " | time=", " ms | ") = inLog

====
